---------------------------- MODULE Spec2Model ----------------------------
(***************************************************************************)
(* The profile page (src/pages/Profile.tsx): the profile query, the        *)
(* updateProfile mutation with its 30-day gate on username / phone, the    *)
(* photo prompts, the preview toggle, the copy-link action and the image   *)
(* fallback, as one state machine.  Every await of the source is a point   *)
(* where other events may interleave, so each asynchronous function is     *)
(* split into one action per await.                                        *)
(***************************************************************************)
EXTENDS Integers, FiniteSets, Sequences, TLC

(***************************************************************************)
(* Bounds of the model.                                                    *)
(***************************************************************************)
\* number of updateProfile.mutate calls in a run; all may be in flight together
MaxMutations == 2
\* number of steps the clock may advance
MaxTicks == 1

(***************************************************************************)
(* Program constants and value domains.                                    *)
(***************************************************************************)
\* "após 30 dias da última atualização"
Cooldown == 30
\* a basic_info_updated_at that is null (row) or absent (values)
NoTime == -1
\* a column stored as null
NULL == "<null>"
\* a field read through profile?. while profile is undefined
UNDEF == "<undefined>"

defaultAvatarImage == "/placeholder.svg"
defaultCoverImage == "/placeholder.svg"

Origin == "https://x.test"

ShareLink == "https://www.dropbox.com/s/a.png?dl=0"
DirectLink == "https://dl.dropboxusercontent.com/s/a.png"

\* what the user may type into the edit dialog's username and phone inputs
DialogUsernames == {"bob"}
DialogPhones == {"222"}
\* what the user may paste into a photo prompt
PromptInputs == {ShareLink}

Slots == 1..MaxMutations

\* days the clock advances in one step: one cooldown window
Granule == Cooldown
MaxTime == MaxTicks * Granule

MsgNoAuth == "Não autenticado"
MsgCooldown == "Você só pode alterar seu @ ou telefone após 30 dias da última atualização."
MsgBackend == "backend error"

NoToast == [title |-> "", description |-> ""]
ToastUpdated == [title |-> "Perfil atualizado",
                 description |-> "Suas informações foram atualizadas com sucesso"]
ToastCopied == [title |-> "Link copiado!",
                description |-> "O link do seu perfil foi copiado para a área de transferência."]
ToastImageError == [title |-> "Erro ao carregar a imagem",
                    description |-> "Verifique se o link do Dropbox está correto"]
ToastUpdateError(msg) == [title |-> "Erro ao atualizar perfil", description |-> msg]

(***************************************************************************)
(* Pure helpers.                                                           *)
(***************************************************************************)
\* JavaScript truthiness of a string-or-null-or-undefined value
Truthy(v) == v \notin {"", NULL, UNDEF}

\* v || ""
OrEmpty(v) == IF Truthy(v) THEN v ELSE ""

\* the link normaliser: a share link becomes its direct-view form
convertDropboxUrl(u) == IF u = ShareLink THEN DirectLink ELSE u

\* if (x) x = convertDropboxUrl(x)
NormalizeLink(u) == IF Truthy(u) THEN convertDropboxUrl(u) ELSE u

\* the profile of a query that holds no data
Undefined == [username |-> UNDEF, phone |-> UNDEF, avatar_url |-> UNDEF,
              cover_url |-> UNDEF, basic_info_updated_at |-> NoTime]

\* useForm defaultValues
defaultValues == [username |-> "", phone |-> "", avatar_url |-> "", cover_url |-> ""]

\* the values form.reset installs for a loaded profile
FormOf(p) == [username |-> OrEmpty(p.username), phone |-> OrEmpty(p.phone),
              avatar_url |-> OrEmpty(p.avatar_url), cover_url |-> OrEmpty(p.cover_url)]

\* what the profile queryFn returns for a row
NormalizeRow(row) == [row EXCEPT !.avatar_url = NormalizeLink(row.avatar_url),
                                 !.cover_url = NormalizeLink(row.cover_url)]

\* values.username !== profile?.username || values.phone !== profile?.phone
isUpdatingRestricted(values, seen) ==
    values.username # seen.username \/ values.phone # seen.phone

\* the remote procedure can_update_basic_info
can_update_basic_info(row, t) ==
    row.basic_info_updated_at = NoTime \/ t - row.basic_info_updated_at >= Cooldown

\* .update(values): the columns that values carries replace the row's
UpdateRow(row, values) ==
    [username |-> values.username, phone |-> values.phone,
     avatar_url |-> values.avatar_url, cover_url |-> values.cover_url,
     basic_info_updated_at |-> IF values.basic_info_updated_at = NoTime
                               THEN row.basic_info_updated_at
                               ELSE values.basic_info_updated_at]

\* a write that changes username or phone
ChangesRestricted(old, new) == new.username # old.username \/ new.phone # old.phone

\* the link built without its path segment
ProfileLinkNoPath(origin, username) == origin \o "/" \o username

\* `${window.location.origin}/perfil/${profile.username}`
ProfileLink(origin, username) == origin \o "/perfil/" \o username

(***************************************************************************)
(* State.                                                                  *)
(***************************************************************************)
VARIABLES
    session,        \* whether supabase.auth holds a session
    now,            \* the clock, in days
    store,          \* the row of table profiles
    profile,        \* data of the query ["profile"], Undefined while it has none
    query,          \* the query's status, error, invalidation flag and queryFn position
    form,           \* the values of the page's form
    isPreviewMode,  \* useState(false)
    mutations,      \* the updateProfile mutations, in the order of their mutate calls
    toast,          \* the notification shown last
    clipboard,      \* what navigator.clipboard holds
    fallback,       \* the images whose src was replaced by the placeholder
    mounted,        \* whether the page is still the current route
    changedAt       \* history: when a write last changed username or phone

vars == <<session, now, store, profile, query, form, isPreviewMode, mutations,
          toast, clipboard, fallback, mounted, changedAt>>

IdleMutation == [pc |-> "idle", values |-> defaultValues @@ [basic_info_updated_at |-> NoTime],
                 seen |-> [username |-> UNDEF, phone |-> UNDEF],
                 formBefore |-> defaultValues]

\* a settled mutation keeps its status
Settled(status) == [IdleMutation EXCEPT !.pc = status]

InFlight(m) == mutations[m].pc \in {"getSession", "rpc", "update", "updated"}

\* the mutations are numbered in the order of their mutate calls
Started == {m \in Slots : mutations[m].pc # "idle"}

\* isLoading of the query: fetching with no data yet
isProfileLoading == query.pc # "idle" /\ query.status = "pending"

\* the page body is on screen
Rendered == mounted /\ ~isProfileLoading

\* the controls of the action column
Controls ==
    IF ~Rendered THEN {}
    ELSE IF ~isPreviewMode
         THEN {"EditPhotosButton", "EditProfileDialog", "copyProfileLink", "Ver como"}
         ELSE {"Sair do modo preview"}

Init ==
    /\ session \in BOOLEAN
    /\ now = 0
    /\ store \in [username : {"ana"}, phone : {"111", NULL},
                  avatar_url : {ShareLink}, cover_url : {NULL},
                  basic_info_updated_at : {NoTime, 0}]
    /\ changedAt = store.basic_info_updated_at
    /\ profile = Undefined
    /\ query = [pc |-> "getSession", status |-> "pending", error |-> "", isInvalidated |-> FALSE]
    /\ form = defaultValues
    /\ isPreviewMode = FALSE
    /\ mutations = [m \in Slots |-> IdleMutation]
    /\ toast = NoToast
    /\ clipboard = ""
    /\ fallback = {}
    /\ mounted = TRUE

(***************************************************************************)
(* The environment.                                                        *)
(***************************************************************************)
Tick ==
    /\ now + Granule <= MaxTime
    /\ now' = now + Granule
    /\ UNCHANGED <<session, store, profile, query, form, isPreviewMode, mutations,
                   toast, clipboard, fallback, mounted, changedAt>>

\* await supabase.auth.signOut(); navigate("/login")
handleLogout ==
    /\ Rendered
    /\ session' = FALSE
    /\ mounted' = FALSE
    /\ UNCHANGED <<now, store, profile, query, form, isPreviewMode, mutations,
                   toast, clipboard, fallback, changedAt>>

(***************************************************************************)
(* The profile query.                                                      *)
(***************************************************************************)
\* the query starts its queryFn; one that holds no data goes back to pending
StartFetch(q) ==
    [pc |-> "getSession",
     status |-> IF profile = Undefined THEN "pending" ELSE q.status,
     error |-> IF profile = Undefined THEN "" ELSE q.error,
     isInvalidated |-> q.isInvalidated]

\* queryClient.invalidateQueries: the entry is marked, and refetched (a fetch
\* in flight is cancelled and restarted) while the page observes it
invalidateQueries(q) ==
    IF mounted THEN StartFetch([q EXCEPT !.isInvalidated = TRUE])
               ELSE [q EXCEPT !.isInvalidated = TRUE]

\* the queryFn without its session guard
LoaderGetSessionNoGuard ==
    /\ query.pc = "getSession"
    /\ query' = [query EXCEPT !.pc = "select"]
    /\ UNCHANGED <<session, now, store, profile, form, isPreviewMode, mutations,
                   toast, clipboard, fallback, mounted, changedAt>>

\* await supabase.auth.getSession(); if (!session) throw
LoaderGetSession ==
    /\ query.pc = "getSession"
    /\ IF ~session
       THEN query' = [query EXCEPT !.pc = "idle", !.status = "error", !.error = MsgNoAuth]
       ELSE query' = [query EXCEPT !.pc = "select"]
    /\ UNCHANGED <<session, now, store, profile, form, isPreviewMode, mutations,
                   toast, clipboard, fallback, mounted, changedAt>>

\* the images whose src attribute React leaves alone when the profile changes
KeptFallback(old, new) ==
    {k \in fallback : new[k] = old[k]}

\* await supabase.from("profiles").select("*")...single(), and what follows;
\* the effect resets the form when the profile it depends on has changed
LoaderSelect ==
    /\ query.pc = "select"
    /\ \/ /\ query' = [query EXCEPT !.pc = "idle", !.status = "error", !.error = MsgBackend]
          /\ UNCHANGED <<profile, form, fallback>>
       \/ /\ profile' = NormalizeRow(store)
          /\ query' = [pc |-> "idle", status |-> "success", error |-> "",
                       isInvalidated |-> FALSE]
          /\ form' = IF mounted /\ profile' # profile THEN FormOf(profile') ELSE form
          /\ fallback' = KeptFallback(profile, profile')
    /\ UNCHANGED <<session, now, store, isPreviewMode, mutations, toast, clipboard,
                   mounted, changedAt>>

(***************************************************************************)
(* The updateProfile mutation.                                             *)
(***************************************************************************)
\* updateProfile.mutate(values): the mutationFn closes over the profile of
\* the render that called it; before is the form as the handler found it
mutate(values, before) ==
    /\ Cardinality(Started) < MaxMutations
    /\ mutations' = [mutations EXCEPT ![Cardinality(Started) + 1] =
          [pc |-> "getSession",
           values |-> values @@ [basic_info_updated_at |-> NoTime],
           seen |-> [username |-> profile.username, phone |-> profile.phone],
           formBefore |-> before]]

\* the edit dialog is given the profile and hands its values to handleSubmit
handleSubmit(field, value) ==
    /\ "EditProfileDialog" \in Controls
    /\ mutate([FormOf(profile) EXCEPT ![field] = value], form)
    /\ UNCHANGED <<session, now, store, profile, query, form, isPreviewMode,
                   toast, clipboard, fallback, mounted, changedAt>>

handleAvatarImageClick(dialog) ==
    /\ "EditPhotosButton" \in Controls
    /\ form' = [form EXCEPT !.avatar_url = dialog]
    /\ mutate(form', form)
    /\ UNCHANGED <<session, now, store, profile, query, isPreviewMode,
                   toast, clipboard, fallback, mounted, changedAt>>

handleCoverImageClick(dialog) ==
    /\ "EditPhotosButton" \in Controls
    /\ mutate([form EXCEPT !.cover_url = dialog], form)
    /\ UNCHANGED <<session, now, store, profile, query, form, isPreviewMode,
                   toast, clipboard, fallback, mounted, changedAt>>

\* the mutationFn throws: onError
Fails(m, msg) ==
    /\ mutations' = [mutations EXCEPT ![m] = Settled("error")]
    /\ toast' = ToastUpdateError(msg)

\* getSession, the link normalisation, isUpdatingRestricted and the request sent
MutGetSession(m) ==
    /\ mutations[m].pc = "getSession"
    /\ IF ~session
       THEN Fails(m, MsgNoAuth)
       ELSE LET v == [mutations[m].values EXCEPT
                         !.avatar_url = NormalizeLink(@), !.cover_url = NormalizeLink(@)]
            IN /\ mutations' = [mutations EXCEPT
                      ![m].values = v,
                      ![m].pc = IF isUpdatingRestricted(v, mutations[m].seen)
                                THEN "rpc" ELSE "update"]
               /\ toast' = toast
    /\ UNCHANGED <<session, now, store, profile, query, form, isPreviewMode,
                   clipboard, fallback, mounted, changedAt>>

\* the check whose denial is not thrown
MutCheckNoThrow(m) ==
    /\ mutations[m].pc = "rpc"
    /\ \/ Fails(m, MsgBackend)
       \/ /\ mutations' = [mutations EXCEPT
                 ![m].values.basic_info_updated_at = now, ![m].pc = "update"]
          /\ toast' = toast
    /\ UNCHANGED <<session, now, store, profile, query, form, isPreviewMode,
                   clipboard, fallback, mounted, changedAt>>

\* the answer of rpc('can_update_basic_info'), and the stamp
MutCheck(m) ==
    /\ mutations[m].pc = "rpc"
    /\ \/ Fails(m, MsgBackend)
       \/ IF ~can_update_basic_info(store, now)
          THEN Fails(m, MsgCooldown)
          ELSE /\ mutations' = [mutations EXCEPT
                      ![m].values.basic_info_updated_at = now, ![m].pc = "update"]
               /\ toast' = toast
    /\ UNCHANGED <<session, now, store, profile, query, form, isPreviewMode,
                   clipboard, fallback, mounted, changedAt>>

\* the backend's answer to .update(values).eq("id", ...)
MutUpdate(m) ==
    /\ mutations[m].pc = "update"
    /\ \/ Fails(m, MsgBackend) /\ UNCHANGED <<store, changedAt>>
       \/ /\ store' = UpdateRow(store, mutations[m].values)
          /\ changedAt' = IF ChangesRestricted(store, store') THEN now ELSE changedAt
          /\ mutations' = [mutations EXCEPT ![m].pc = "updated"]
          /\ toast' = toast
    /\ UNCHANGED <<session, now, profile, query, form, isPreviewMode,
                   clipboard, fallback, mounted>>

\* an onSuccess that forgets the invalidation
MutSettleNoInvalidate(m) ==
    /\ mutations[m].pc = "updated"
    /\ toast' = ToastUpdated
    /\ mutations' = [mutations EXCEPT ![m] = Settled("success")]
    /\ UNCHANGED <<session, now, store, profile, query, form, isPreviewMode,
                   clipboard, fallback, mounted, changedAt>>

\* an onSuccess that also leaves the preview
MutSettleClosesPreview(m) ==
    /\ mutations[m].pc = "updated"
    /\ query' = invalidateQueries(query)
    /\ toast' = ToastUpdated
    /\ isPreviewMode' = FALSE
    /\ mutations' = [mutations EXCEPT ![m] = Settled("success")]
    /\ UNCHANGED <<session, now, store, profile, form,
                   clipboard, fallback, mounted, changedAt>>

\* onSuccess
MutSettle(m) ==
    /\ mutations[m].pc = "updated"
    /\ query' = invalidateQueries(query)
    /\ toast' = ToastUpdated
    /\ mutations' = [mutations EXCEPT ![m] = Settled("success")]
    /\ UNCHANGED <<session, now, store, profile, form, isPreviewMode,
                   clipboard, fallback, mounted, changedAt>>

(***************************************************************************)
(* The view.                                                               *)
(***************************************************************************)
\* DropdownMenuItem "Ver como"
EnterPreview ==
    /\ "Ver como" \in Controls
    /\ isPreviewMode' = TRUE
    /\ UNCHANGED <<session, now, store, profile, query, form, mutations,
                   toast, clipboard, fallback, mounted, changedAt>>

\* Button "Sair do modo preview"
ExitPreview ==
    /\ "Sair do modo preview" \in Controls
    /\ isPreviewMode' = FALSE
    /\ UNCHANGED <<session, now, store, profile, query, form, mutations,
                   toast, clipboard, fallback, mounted, changedAt>>

copyProfileLink ==
    /\ "copyProfileLink" \in Controls
    /\ IF Truthy(profile.username)
       THEN /\ clipboard' = ProfileLink(Origin, profile.username)
            /\ toast' = ToastCopied
       ELSE UNCHANGED <<clipboard, toast>>
    /\ UNCHANGED <<session, now, store, profile, query, form, isPreviewMode,
                   mutations, fallback, mounted, changedAt>>

\* onError of the cover or avatar img
ImageError(k) ==
    /\ Rendered
    /\ Truthy(profile[k])
    /\ k \notin fallback
    /\ fallback' = fallback \cup {k}
    /\ UNCHANGED <<session, now, store, profile, query, form, isPreviewMode,
                   mutations, toast, clipboard, mounted, changedAt>>

(***************************************************************************)
(* Spec: the profile query and the mutator with every way of submitting,   *)
(* under a session that is there or not from the start.                    *)
(***************************************************************************)
Next ==
    \/ Tick
    \/ LoaderGetSession
    \/ LoaderSelect
    \/ \E u \in DialogUsernames : handleSubmit("username", u)
    \/ \E p \in DialogPhones : handleSubmit("phone", p)
    \/ \E d \in PromptInputs : handleAvatarImageClick(d)
    \/ \E d \in PromptInputs : handleCoverImageClick(d)
    \/ \E m \in Slots : MutGetSession(m)
    \/ \E m \in Slots : MutCheck(m)
    \/ \E m \in Slots : MutUpdate(m)
    \/ \E m \in Slots : MutSettle(m)

Spec == Init /\ [][Next]_vars

(***************************************************************************)
(* SpecPage: the page with its view actions and the sign-out, the photo    *)
(* prompts as the submissions, at one instant of the clock.                *)
(***************************************************************************)
InitPage ==
    /\ session \in BOOLEAN
    /\ now = 0
    /\ store \in [username : {"ana", NULL}, phone : {"111"},
                  avatar_url : {ShareLink}, cover_url : {NULL},
                  basic_info_updated_at : {NoTime}]
    /\ changedAt = store.basic_info_updated_at
    /\ profile = Undefined
    /\ query = [pc |-> "getSession", status |-> "pending", error |-> "", isInvalidated |-> FALSE]
    /\ form = defaultValues
    /\ isPreviewMode = FALSE
    /\ mutations = [m \in Slots |-> IdleMutation]
    /\ toast = NoToast
    /\ clipboard = ""
    /\ fallback = {}
    /\ mounted = TRUE

NextPage ==
    \/ handleLogout
    \/ LoaderGetSession
    \/ LoaderSelect
    \/ \E d \in PromptInputs : handleAvatarImageClick(d)
    \/ \E d \in PromptInputs : handleCoverImageClick(d)
    \/ \E m \in Slots : MutGetSession(m)
    \/ \E m \in Slots : MutCheck(m)
    \/ \E m \in Slots : MutUpdate(m)
    \/ \E m \in Slots : MutSettle(m)
    \/ EnterPreview
    \/ ExitPreview
    \/ copyProfileLink
    \/ \E k \in {"avatar_url", "cover_url"} : ImageError(k)

SpecPage == InitPage /\ [][NextPage]_vars

(***************************************************************************)
(* The claims.                                                             *)
(***************************************************************************)
\* the username and phone of a submission are those the form shows for the
\* profile the submission saw
Unchanged(m) ==
    /\ mutations[m].values.username = OrEmpty(mutations[m].seen.username)
    /\ mutations[m].values.phone = OrEmpty(mutations[m].seen.phone)

\* the step is mutation m's mutationFn throwing
Fail(m) == InFlight(m) /\ mutations'[m].pc = "error"

\* the step is the backend accepting mutation m's write
Accepted(m) == mutations[m].pc = "update" /\ mutations'[m].pc = "updated"

\* the step is mutation m's onSuccess
Succeed(m) == mutations[m].pc = "updated" /\ mutations'[m].pc = "success"

\* C1: no two accepted backend writes that change username or phone lie
\* within 30 days of each other, whatever the order and overlap of the
\* submissions.
C1_OncePerWindow ==
    [][(ChangesRestricted(store, store') /\ changedAt # NoTime)
          => now - changedAt >= Cooldown]_vars

\* C2: a submission whose username and phone are unchanged with respect to
\* the profile (a null or absent one shows as "") never reaches the
\* eligibility check and never carries a new basic_info_updated_at.
C2_NoCheckWhenUnchanged ==
    \A m \in Slots :
        (InFlight(m) /\ Unchanged(m))
            => /\ mutations[m].pc # "rpc"
               /\ mutations[m].values.basic_info_updated_at = NoTime

\* C3: when the username differs from the profile and the eligibility check
\* does not allow the update, the mutation ends in its error (the 30-day
\* message when the check answered false) without a write: the row is as
\* it was; and a restricted mutation that is at its write carries the stamp
\* of a check that allowed it.
C3_DeniedAborts ==
    [][\A m \in Slots :
          /\ (/\ mutations[m].pc = "rpc"
              /\ mutations[m].values.username # mutations[m].seen.username
              /\ ~can_update_basic_info(store, now)
              /\ mutations'[m] # mutations[m])
                => /\ store' = store
                   /\ mutations'[m] = Settled("error")
                   /\ toast' \in {ToastUpdateError(MsgCooldown), ToastUpdateError(MsgBackend)}
          /\ (/\ mutations'[m].pc \in {"update", "updated"}
              /\ isUpdatingRestricted(mutations'[m].values, mutations'[m].seen))
                => mutations'[m].values.basic_info_updated_at # NoTime]_vars

\* a mutation that changes the username waits for a check the backend denies
C3_Witness ==
    \E m \in Slots :
        /\ mutations[m].pc = "rpc"
        /\ mutations[m].values.username # mutations[m].seen.username
        /\ mutations[m].seen.username # UNDEF
        /\ ~can_update_basic_info(store, now)

\* C4: an accepted write of a submission that changed the phone leaves the
\* row with the submitted phone and with the submission's own stamp, which
\* is not earlier than the stamp the row held.
C4_PhoneWriteStamps ==
    [][\A m \in Slots :
          (Accepted(m) /\ mutations[m].values.phone # mutations[m].seen.phone)
              => /\ store'.phone = mutations[m].values.phone
                 /\ mutations[m].values.basic_info_updated_at # NoTime
                 /\ store'.basic_info_updated_at = mutations[m].values.basic_info_updated_at
                 /\ store'.basic_info_updated_at >= store.basic_info_updated_at]_vars

\* the cache holds nothing or a whole row
WholeOrUndefined ==
    \/ profile = Undefined
    \/ \A f \in {"username", "phone", "avatar_url", "cover_url"} : profile[f] # UNDEF

\* C5: without a session the queryFn ends in the authentication error and
\* never goes on to the read; the cached data stays what it was, and is
\* never a partial row.
C5_NoSessionLoaderFails ==
    [][/\ (query.pc = "getSession" /\ ~session /\ query'.pc # "getSession")
             => /\ query'.pc = "idle"
                /\ query'.status = "error"
                /\ query'.error = MsgNoAuth
                /\ profile' = profile
       /\ WholeOrUndefined /\ WholeOrUndefined']_vars

\* the first load failed for want of a session and left no data
C5_Witness ==
    /\ ~session
    /\ query = [pc |-> "idle", status |-> "error", error |-> MsgNoAuth,
                isInvalidated |-> FALSE]
    /\ profile = Undefined

\* C6: when a submission fails, its error is shown and the form is what it
\* was before the submission was started; the failure changes neither the
\* cached profile nor the preview flag.
C6_FailureLeavesLocalState ==
    [][\A m \in Slots :
          Fail(m) => /\ toast' \in {ToastUpdateError(MsgNoAuth), ToastUpdateError(MsgCooldown),
                                  ToastUpdateError(MsgBackend)}
                     /\ form' = mutations[m].formBefore
                     /\ profile' = profile
                     /\ isPreviewMode' = isPreviewMode]_vars

EditShareControls ==
    {"EditPhotosButton", "EditProfileDialog", "copyProfileLink", "Ver como"}

\* what the claim says of the controls in each view state
ControlsAsStated ==
    /\ isPreviewMode => Controls \cap EditShareControls = {}
    /\ (isPreviewMode /\ Rendered) => Controls = {"Sair do modo preview"}
    /\ (~isPreviewMode /\ Rendered) => Controls = EditShareControls

\* C7: the view starts in normal; only "Ver como" and the exit button
\* change the view state, each in its own direction; in preview no edit or
\* share control is exposed and the exit button is the one control, and in
\* normal the full set is exposed.
C7_PreviewStateMachine ==
    /\ ~isPreviewMode
    /\ [][/\ (~isPreviewMode /\ isPreviewMode') => EnterPreview
          /\ (isPreviewMode /\ ~isPreviewMode') => ExitPreview
          /\ ControlsAsStated /\ ControlsAsStated']_vars

\* in preview, after a mutation has succeeded and the refetch has come back
C7_Witness ==
    /\ isPreviewMode
    /\ Controls = {"Sair do modo preview"}
    /\ \E m \in Slots : mutations[m].pc = "success"
    /\ query.status = "success" /\ query.pc = "idle"
    /\ profile = NormalizeRow(store)

\* C8: an image that fails to load gets the placeholder as its src and a
\* warning notification is raised, the page staying rendered.
C8_ImageErrorWarns ==
    [][(\E k \in fallback' : k \notin fallback)
          => (toast' = ToastImageError /\ Rendered')]_vars

\* what onSuccess and onError do, and do not
SettleEffects ==
    \A m \in Slots :
        /\ Succeed(m) => /\ query'.isInvalidated
                         /\ mounted => query'.pc = "getSession"
                         /\ toast' = ToastUpdated
        /\ Fail(m) => /\ query' = query
                      /\ toast' # ToastUpdated

\* nothing is in flight: no mutation, no fetch
Quiescent == mounted /\ query.pc = "idle" /\ \A m \in Slots : ~InFlight(m)

SomeSucceeded == \E m \in Slots : mutations[m].pc = "success"

\* C9 as stated: success is followed by invalidation and the success
\* notification, failure by neither; and once nothing is in flight after a
\* success, the cached profile is the stored row, normalised.
C9_CacheFollowsStore ==
    [][/\ SettleEffects
       /\ (Quiescent /\ SomeSucceeded)' => (profile = NormalizeRow(store))']_vars

\* C9 as amended: ... once nothing is in flight and the refetch has
\* succeeded, the cached profile is the stored row, normalised.
C9_CacheFollowsStoreOnSuccess ==
    [][/\ SettleEffects
       /\ (Quiescent /\ SomeSucceeded /\ query.status = "success")'
             => (profile = NormalizeRow(store))']_vars

\* a photo submission succeeded and the refetch brought it into the cache
C9_Witness ==
    /\ Quiescent /\ SomeSucceeded /\ query.status = "success"
    /\ ~query.isInvalidated
    /\ toast = ToastUpdated
    /\ store.cover_url = DirectLink
    /\ profile = NormalizeRow(store)

\* C10: copying writes origin + "/perfil/" + username of the loaded profile
\* and raises "Link copiado!"; with no profile or an empty username the
\* clipboard and the notification stay as they are; nothing else writes the
\* clipboard.
C10_CopyLink ==
    [][/\ copyProfileLink =>
             IF profile # Undefined /\ profile.username \notin {"", NULL}
             THEN /\ clipboard' = Origin \o "/perfil/" \o profile.username
                  /\ toast' = ToastCopied
             ELSE clipboard' = clipboard /\ toast' = toast
       /\ clipboard' # clipboard => copyProfileLink
       /\ ProfileLink("https://x.test", "ana") = "https://x.test/perfil/ana"]_vars

\* the link of profile "ana" is on the clipboard
C10_Witness ==
    /\ profile.username = "ana"
    /\ clipboard = "https://x.test/perfil/ana"
    /\ toast = ToastCopied

=============================================================================
